---- MODULE Spec2Model ----
(***************************************************************************)
(* Model of tasks.py, the release automation of warehouse: the invoke      *)
(* tasks release.test, release.build, release.upload and release.all.      *)
(* Strings are sequences of one-character strings, so that formatting,     *)
(* splitting, parsing and lexicographic sorting are modelled as computed.  *)
(***************************************************************************)
EXTENDS Integers, Sequences, FiniteSets, TLC

VARIABLES invoked, queue, cur, status, pc, raised,
          cwd, tmpdirs, tmptree, dist, about,
          tags, head, staged, commits,
          curdir, tmpdir, tox_l, envs,
          date, version_series, version_num, version, build_tag,
          current_branch, next_version, dist_types,
          trace, head0

vars == <<invoked, queue, cur, status, pc, raised,
          cwd, tmpdirs, tmptree, dist, about,
          tags, head, staged, commits,
          curdir, tmpdir, tox_l, envs,
          date, version_series, version_num, version, build_tag,
          current_branch, next_version, dist_types,
          trace, head0>>

----------------------------------------------------------------------------
(* Bounds of the model *)

\* the series of BusyMonth holds the tags v<series>.0 .. v<series>.(k-1),
\* k <= MaxTags
MaxTags == 11
\* every other series of Dates holds the tags 0 .. OtherTags-1
OtherTags == 2

\* (year, month) values the clock may show
Dates == {<<2013, 11>>, <<2013, 1>>, <<2009, 1>>, <<2000, 12>>}
\* the month most releases were made in
BusyMonth == <<2013, 11>>
\* environments `tox -l` may list
AllEnvs == {"py27", "pep8", "packaging"}
Branches == {<<"m", "a", "s", "t", "e", "r">>, <<"r", "e", "l">>}
TmpNames == {"/tmp/a/", "/tmp/b/"}
ProjectDir == "/project"
\* output of `git rev-parse HEAD`
HeadRev == <<"a", "1", "b", "2", "c", "3", "d", "4", "e", "5">>

----------------------------------------------------------------------------
(* Strings *)

DigitChars == <<"0", "1", "2", "3", "4", "5", "6", "7", "8", "9">>

\* code point order of the characters that occur in tag names
Alphabet == <<".", "0", "1", "2", "3", "4", "5", "6", "7", "8", "9",
              "d", "e", "v">>

Ord(c) == CHOOSE i \in 1..Len(Alphabet) : Alphabet[i] = c

IsDigit(c) == \E i \in 1..10 : DigitChars[i] = c

DigitVal(c) == (CHOOSE i \in 1..10 : DigitChars[i] = c) - 1

RECURSIVE Str(_)
\* str(n) for n >= 0
Str(n) == IF n < 10 THEN <<DigitChars[n + 1]>>
          ELSE Str(n \div 10) \o <<DigitChars[(n % 10) + 1]>>

RECURSIVE ToInt(_)
\* int(s) for a string of decimal digits
ToInt(s) == IF Len(s) = 0 THEN 0
          ELSE 10 * ToInt(SubSeq(s, 1, Len(s) - 1)) + DigitVal(s[Len(s)])

\* %y and %m of strftime: two digits, zero padded
Pad2(n) == <<DigitChars[(n \div 10) + 1], DigitChars[(n % 10) + 1]>>

Strftime(d) == Pad2(d[1] % 100) \o <<".">> \o Pad2(d[2])

RECURSIVE Split(_, _)
\* s.split(sep) for a one-character separator
Split(s, sep) ==
    IF \A i \in 1..Len(s) : s[i] # sep THEN <<s>>
    ELSE LET i == CHOOSE j \in 1..Len(s) :
                      s[j] = sep /\ \A k \in 1..(j - 1) : s[k] # sep
         IN  <<SubSeq(s, 1, i - 1)>> \o Split(SubSeq(s, i + 1, Len(s)), sep)

RECURSIVE Join(_, _)
\* sep.join(parts)
Join(sep, parts) ==
    IF Len(parts) = 0 THEN <<>>
    ELSE IF Len(parts) = 1 THEN parts[1]
    ELSE parts[1] \o sep \o Join(sep, Tail(parts))

\* the mutant of Normalize: the components are joined as they are
NormalizeKeep(s) == Join(<<".">>, Split(s, "."))

\* ".".join([str(int(x)) for x in s.split(".")])
Normalize(s) ==
    LET parts == Split(s, ".")
    IN  Join(<<".">>, [i \in 1..Len(parts) |-> Str(ToInt(parts[i]))])

\* a < b for Python strings
LexLess(a, b) ==
    \E i \in 1..(Len(a) + 1) :
        /\ \A k \in 1..(i - 1) : k <= Len(b) /\ a[k] = b[k]
        /\ \/ i = Len(a) + 1 /\ Len(b) >= i
           \/ i <= Len(a) /\ i <= Len(b) /\ Ord(a[i]) < Ord(b[i])

RECURSIVE Sorted(_)
\* sorted(S) for a collection of distinct strings
Sorted(S) ==
    IF S = {} THEN <<>>
    ELSE LET m == CHOOSE x \in S : \A y \in S \ {x} : LexLess(y, x)
         IN  Sorted(S \ {m}) \o <<m>>

Last(s) == s[Len(s)]

IsPrefix(p, s) == Len(p) <= Len(s) /\ SubSeq(s, 1, Len(p)) = p

----------------------------------------------------------------------------
(* Version numbers *)

\* version_series of release_build
VersionSeries(d) == Normalize(Strftime(d))

\* the name of the tag of a version
TagName(v) == <<"v">> \o v

\* the tags `git tag -l 'v<series>.*'` prints
TagList(T, series) == {t \in T : IsPrefix(TagName(series) \o <<".">>, t)}

\* version_num of release_build
VersionNum(versions) ==
    IF Len(versions) > 0 THEN ToInt(Last(Split(Last(versions), "."))) + 1 ELSE 0

\* version of release_build
Version(series, num) == Normalize(Join(<<".">>, <<series, Str(num)>>))

\* next_version of release_build
NextVersion(series, num) ==
    Normalize(Join(<<".">>, <<series, Str(num + 1)>>))
        \o <<".", "d", "e", "v", "0">>

DevelopmentBuild ==
    <<"<", "d", "e", "v", "e", "l", "o", "p", "m", "e", "n", "t", ">">>

\* the tags of a repository that released k versions in the series of d
\* and OtherTags versions in every other series
RepoTags(d, k) ==
    {TagName(Version(VersionSeries(d), n)) : n \in 0..(k - 1)}
    \cup UNION {{TagName(Version(VersionSeries(o), n)) : n \in 0..(OtherTags - 1)}
                : o \in Dates \ {d}}

----------------------------------------------------------------------------
(* The task runner *)

Tasks == {"test", "build", "upload", "all"}

\* the pre-tasks of release_all
pre_swapped == <<"test", "upload", "build">>

pre == <<"test", "build", "upload">>

\* the tasks invoke executes for a task named on the command line
Expand(t) == IF t = "all" THEN pre \o <<"all">> ELSE <<t>>

EntryLabel(t) ==
    CASE t = "test" -> "t_mkdtemp"
      [] t = "build" -> "b_series"
      [] t = "upload" -> "u_twine"
      [] t = "all" -> "idle"

\* one line of the record of what the process did: an external command
\* (ext) with its exit status, or a file system call
Entry(op, arg, ok, ext) ==
    [task |-> cur, op |-> op, arg |-> arg, ok |-> ok, ext |-> ext]

Run(op, arg, ok) == trace' = Append(trace, Entry(op, arg, ok, TRUE))

Do(op, arg) == trace' = Append(trace, Entry(op, arg, TRUE, FALSE))

\* the mutant of OnRun: the exit status is not looked at
OnRunWarn(ok, next, handler) == [pc |-> next, raised |-> FALSE]

\* invoke.run raises when the command exits with nonzero status: control
\* goes to the finally block, or out of the task ("raise") outside of try
OnRun(ok, next, handler) ==
    IF ok THEN [pc |-> next, raised |-> FALSE]
    ELSE [pc |-> handler, raised |-> TRUE]

\* a Python exception (OSError of os.makedirs, KeyError of set.pop)
Raise(handler) == [pc |-> handler, raised |-> TRUE]

\* control moves on; an exception outside of try ends the task and invoke
Step(o) ==
    /\ pc' = IF o.pc = "raise" THEN "idle" ELSE o.pc
    /\ raised' = o.raised
    /\ status' = IF o.pc = "raise" THEN "aborted" ELSE status
    /\ queue' = IF o.pc = "raise" THEN <<>> ELSE queue

\* the mutant of Rmtree: the directory stays
RmtreeKeep(dirs, d) == dirs

\* shutil.rmtree(d, ignore_errors=True)
Rmtree(dirs, d) == dirs \ {d}

EmptyTree == [exported |-> FALSE, hasDist |-> FALSE, files |-> {}]

NoDist == [exists |-> FALSE, files |-> {}]

OldDist == [exists |-> TRUE, files |-> {"warehouse-old.tar.gz"}]

\* the mutant of FilterEnvs: nothing is taken out
FilterEnvsAll(listed) == listed

\* envs -= {"packaging"}
FilterEnvs(listed) == listed \ {"packaging"}

exec == <<invoked, queue, cur, status>>
files == <<cwd, tmpdirs, tmptree, dist, about>>
git == <<tags, head, staged, commits>>
tlocals == <<curdir, tmpdir, tox_l, envs>>
blocals == <<date, version_series, version_num, version, build_tag,
             current_branch, next_version, dist_types>>

Init ==
    /\ invoked \in Tasks
    /\ queue = Expand(invoked)
    /\ cur = "none"
    /\ status = "running"
    /\ pc = "idle"
    /\ raised = FALSE
    /\ cwd = ProjectDir
    /\ tmpdirs = {}
    /\ tmptree = EmptyTree
    /\ dist \in {NoDist, OldDist}
    /\ about = [version |-> <<>>, build |-> DevelopmentBuild]
    /\ \E k \in 0..MaxTags : tags = RepoTags(BusyMonth, k)
    /\ head \in Branches
    /\ staged = about
    /\ commits = <<>>
    /\ curdir = ""
    /\ tmpdir = ""
    /\ tox_l = {}
    /\ envs = {}
    /\ date = <<0, 0>>
    /\ version_series = <<>>
    /\ version_num = 0
    /\ version = <<>>
    /\ build_tag = <<>>
    /\ current_branch = <<>>
    /\ next_version = <<>>
    /\ dist_types = <<>>
    /\ trace = <<>>
    /\ head0 = head

\* invoke starts the next task; the body of release_all is empty
ExecNext ==
    /\ pc = "idle"
    /\ status = "running"
    /\ queue # <<>>
    /\ cur' = Head(queue)
    /\ queue' = Tail(queue)
    /\ pc' = EntryLabel(Head(queue))
    /\ raised' = FALSE
    /\ curdir' = ""
    /\ tmpdir' = ""
    /\ tox_l' = {}
    /\ envs' = {}
    /\ date' = <<0, 0>>
    /\ version_series' = <<>>
    /\ version_num' = 0
    /\ version' = <<>>
    /\ build_tag' = <<>>
    /\ current_branch' = <<>>
    /\ next_version' = <<>>
    /\ dist_types' = <<>>
    /\ head0' = head
    /\ UNCHANGED <<invoked, status, files, git, trace>>

----------------------------------------------------------------------------
(* release_test *)

T_mkdtemp ==
    /\ pc = "t_mkdtemp"
    /\ curdir' = cwd
    /\ \E d \in TmpNames \ tmpdirs :
          /\ tmpdir' = d
          /\ tmpdirs' = tmpdirs \cup {d}
          /\ Do("mkdtemp", <<d>>)
    /\ tmptree' = EmptyTree
    /\ pc' = "t_export"
    /\ UNCHANGED <<exec, raised, cwd, dist, about, git, tox_l, envs, blocals,
                   head0>>

T_export ==
    /\ pc = "t_export"
    /\ \E r \in {"fail", "ok", "dist"} :
          /\ Run("git checkout-index", <<tmpdir>>, r # "fail")
          /\ tmptree' = IF r = "fail" THEN tmptree
                        ELSE [exported |-> TRUE, hasDist |-> (r = "dist"),
                              files |-> {}]
          /\ Step(OnRun(r # "fail", "t_chdir", "t_finally"))
    /\ UNCHANGED <<invoked, cur, cwd, tmpdirs, dist, about, git, tlocals, blocals,
                   head0>>

T_chdir ==
    /\ pc = "t_chdir"
    /\ cwd' = tmpdir
    /\ Do("chdir", <<tmpdir>>)
    /\ pc' = "t_toxl"
    /\ UNCHANGED <<exec, raised, tmpdirs, tmptree, dist, about, git, tlocals,
                   blocals, head0>>

T_toxl ==
    /\ pc = "t_toxl"
    /\ \E ok \in BOOLEAN, listed \in SUBSET AllEnvs :
          /\ ok \/ listed = {}
          /\ Run("tox -l", <<>>, ok)
          /\ tox_l' = IF ok THEN listed ELSE tox_l
          /\ envs' = IF ok THEN FilterEnvs(listed) ELSE envs
          /\ Step(OnRun(ok, IF FilterEnvs(listed) = {} THEN "t_finally"
                            ELSE "t_loop", "t_finally"))
    /\ UNCHANGED <<invoked, cur, files, git, curdir, tmpdir, blocals, head0>>

T_toxe ==
    /\ pc = "t_loop"
    /\ \E env \in envs, ok \in BOOLEAN :
          /\ Run("tox -e", <<env>>, ok)
          /\ envs' = envs \ {env}
          /\ Step(OnRun(ok, IF envs \ {env} = {} THEN "t_finally"
                            ELSE "t_loop", "t_finally"))
    /\ UNCHANGED <<invoked, cur, files, git, curdir, tmpdir, tox_l, blocals,
                   head0>>

\* the mutant of T_finally: the working directory is not restored
T_finally_nochdir ==
    /\ pc = "t_finally"
    /\ tmpdirs' = Rmtree(tmpdirs, tmpdir)
    /\ tmptree' = IF tmpdir \in tmpdirs' THEN tmptree ELSE EmptyTree
    /\ trace' = trace \o <<Entry("rmtree", <<tmpdir>>, TRUE, FALSE)>>
    /\ Step([pc |-> IF raised THEN "raise" ELSE "idle", raised |-> raised])
    /\ UNCHANGED <<invoked, cur, cwd, dist, about, git, tlocals, blocals, head0>>

T_finally ==
    /\ pc = "t_finally"
    /\ cwd' = curdir
    /\ tmpdirs' = Rmtree(tmpdirs, tmpdir)
    /\ tmptree' = IF tmpdir \in tmpdirs' THEN tmptree ELSE EmptyTree
    /\ trace' = trace \o <<Entry("chdir", <<curdir>>, TRUE, FALSE),
                           Entry("rmtree", <<tmpdir>>, TRUE, FALSE)>>
    /\ Step([pc |-> IF raised THEN "raise" ELSE "idle", raised |-> raised])
    /\ UNCHANGED <<invoked, cur, dist, about, git, tlocals, blocals, head0>>

----------------------------------------------------------------------------
(* release_build *)

B_series ==
    /\ pc = "b_series"
    /\ \E d \in Dates :
          /\ date' = d
          /\ version_series' = VersionSeries(d)
    /\ pc' = "b_tagl"
    /\ UNCHANGED <<exec, raised, files, git, tlocals, version_num, version,
                   build_tag, current_branch, next_version, dist_types,
                   trace, head0>>

B_tagl ==
    /\ pc = "b_tagl"
    /\ \E ok \in BOOLEAN :
          /\ Run("git tag -l", TagName(version_series) \o <<".", "*">>, ok)
          /\ LET versions == Sorted(TagList(tags, version_series))
                 o == OnRun(ok, "b_revparse", "raise")
             IN  /\ version_num' = IF o.raised THEN version_num
                                   ELSE VersionNum(versions)
                 /\ version' = IF o.raised THEN version
                               ELSE Version(version_series, version_num')
                 /\ Step(o)
    /\ UNCHANGED <<invoked, cur, files, git, tlocals, date, version_series, build_tag,
                   current_branch, next_version, dist_types, head0>>

B_revparse ==
    /\ pc = "b_revparse"
    /\ \E ok \in BOOLEAN :
          /\ Run("git rev-parse HEAD", <<>>, ok)
          /\ LET o == OnRun(ok, "b_write", "raise")
             IN  /\ build_tag' = IF o.raised THEN build_tag
                                 ELSE SubSeq(HeadRev, 1, 7)
                 /\ Step(o)
    /\ UNCHANGED <<invoked, cur, files, git, tlocals, date, version_series,
                   version_num, version, current_branch, next_version,
                   dist_types, head0>>

B_write ==
    /\ pc = "b_write"
    /\ about' = [version |-> version, build |-> build_tag]
    /\ Do("write", version)
    /\ pc' = "b_add"
    /\ UNCHANGED <<exec, raised, cwd, tmpdirs, tmptree, dist, git, tlocals,
                   blocals, head0>>

B_add ==
    /\ pc = "b_add"
    /\ \E ok \in BOOLEAN :
          /\ Run("git add", <<>>, ok)
          /\ LET o == OnRun(ok, "b_commit", "raise")
             IN  /\ staged' = IF ok THEN about ELSE staged
                 /\ Step(o)
    /\ UNCHANGED <<invoked, cur, files, tags, head, commits, tlocals, blocals, head0>>

B_commit ==
    /\ pc = "b_commit"
    /\ \E ok \in BOOLEAN :
          /\ Run("git commit", version \o <<" ">> \o build_tag, ok)
          /\ LET o == OnRun(ok, "b_tag", "raise")
             IN  /\ commits' = IF ok
                               THEN Append(commits,
                                           [kind |-> "release",
                                            version |-> version,
                                            build |-> build_tag,
                                            about |-> staged])
                               ELSE commits
                 /\ Step(o)
    /\ UNCHANGED <<invoked, cur, files, tags, head, staged, tlocals, blocals, head0>>

\* git refuses to create a tag that exists
B_tag ==
    /\ pc = "b_tag"
    /\ \E ok \in BOOLEAN :
          /\ ok => TagName(version) \notin tags
          /\ Run("git tag -s", TagName(version), ok)
          /\ LET o == OnRun(ok, "b_mkdtemp", "raise")
             IN  /\ tags' = IF ok THEN tags \cup {TagName(version)} ELSE tags
                 /\ Step(o)
    /\ UNCHANGED <<invoked, cur, files, head, staged, commits, tlocals, blocals,
                   head0>>

B_mkdtemp ==
    /\ pc = "b_mkdtemp"
    /\ curdir' = cwd
    /\ \E d \in TmpNames \ tmpdirs :
          /\ tmpdir' = d
          /\ tmpdirs' = tmpdirs \cup {d}
          /\ Do("mkdtemp", <<d>>)
    /\ tmptree' = EmptyTree
    /\ pc' = "b_branch"
    /\ UNCHANGED <<exec, raised, cwd, dist, about, git, tox_l, envs, blocals,
                   head0>>

B_branch ==
    /\ pc = "b_branch"
    /\ \E ok \in BOOLEAN :
          /\ Run("git rev-parse --abbrev-ref HEAD", <<>>, ok)
          /\ LET o == OnRun(ok, "b_cotag", "b_finally")
             IN  /\ current_branch' = IF o.raised THEN current_branch
                                      ELSE head
                 /\ Step(o)
    /\ UNCHANGED <<invoked, cur, files, git, tlocals, date, version_series,
                   version_num, version, build_tag, next_version, dist_types,
                   head0>>

B_checkoutTag ==
    /\ pc = "b_cotag"
    /\ \E ok \in BOOLEAN :
          /\ Run("git checkout", TagName(version), ok)
          /\ head' = IF ok THEN TagName(version) ELSE head
          /\ Step(OnRun(ok, "b_export", "b_finally"))
    /\ UNCHANGED <<invoked, cur, files, tags, staged, commits, tlocals, blocals,
                   head0>>

B_export ==
    /\ pc = "b_export"
    /\ \E r \in {"fail", "ok", "dist"} :
          /\ Run("git checkout-index", <<tmpdir>>, r # "fail")
          /\ tmptree' = IF r = "fail" THEN tmptree
                        ELSE [exported |-> TRUE, hasDist |-> (r = "dist"),
                              files |-> {}]
          /\ Step(OnRun(r # "fail", "b_coback", "b_finally"))
    /\ UNCHANGED <<invoked, cur, cwd, tmpdirs, dist, about, git, tlocals, blocals,
                   head0>>

\* the mutant of B_checkoutBack: the checkout changes nothing
B_checkoutBack_stay ==
    /\ pc = "b_coback"
    /\ \E ok \in BOOLEAN :
          /\ Run("git checkout", current_branch, ok)
          /\ Step(OnRun(ok, "b_chdir", "b_finally"))
    /\ UNCHANGED <<invoked, cur, files, git, tlocals, blocals, head0>>

B_checkoutBack ==
    /\ pc = "b_coback"
    /\ \E ok \in BOOLEAN :
          /\ Run("git checkout", current_branch, ok)
          /\ head' = IF ok THEN current_branch ELSE head
          /\ Step(OnRun(ok, "b_chdir", "b_finally"))
    /\ UNCHANGED <<invoked, cur, files, tags, staged, commits, tlocals, blocals,
                   head0>>

B_chdir ==
    /\ pc = "b_chdir"
    /\ cwd' = tmpdir
    /\ Do("chdir", <<tmpdir>>)
    /\ pc' = "b_makedirs"
    /\ UNCHANGED <<exec, raised, tmpdirs, tmptree, dist, about, git, tlocals,
                   blocals, head0>>

\* the mutant of B_makedirs: the old dist directory is removed before the
\* distributions are built
B_makedirs_rmfirst ==
    /\ pc = "b_makedirs"
    /\ dist' = NoDist
    /\ IF tmptree.hasDist
       THEN /\ Step(Raise("b_finally"))
            /\ Do("makedirs", <<"dist">>)
            /\ UNCHANGED <<tmptree, dist_types>>
       ELSE /\ tmptree' = [tmptree EXCEPT !.hasDist = TRUE]
            /\ dist_types' = <<"sdist", "bdist_wheel">>
            /\ Do("makedirs", <<"dist">>)
            /\ pc' = "b_loop"
            /\ UNCHANGED <<raised, status, queue>>
    /\ UNCHANGED <<invoked, cur, cwd, tmpdirs, about, git, tlocals, date,
                   version_series, version_num, version, build_tag,
                   current_branch, next_version, head0>>

\* os.makedirs("dist") raises when the exported tree has a dist directory
B_makedirs ==
    /\ pc = "b_makedirs"
    /\ IF tmptree.hasDist
       THEN /\ Step(Raise("b_finally"))
            /\ Do("makedirs", <<"dist">>)
            /\ UNCHANGED <<tmptree, dist_types>>
       ELSE /\ tmptree' = [tmptree EXCEPT !.hasDist = TRUE]
            /\ dist_types' = <<"sdist", "bdist_wheel">>
            /\ Do("makedirs", <<"dist">>)
            /\ pc' = "b_loop"
            /\ UNCHANGED <<raised, status, queue>>
    /\ UNCHANGED <<invoked, cur, cwd, tmpdirs, dist, about, git, tlocals, date,
                   version_series, version_num, version, build_tag,
                   current_branch, next_version, head0>>

\* the file a setup.py command leaves in dist
DistFile(dist_type) ==
    IF dist_type = "sdist" THEN "warehouse.tar.gz" ELSE "warehouse.whl"

\* one round of the loop over the distribution types; set.pop raises
\* KeyError when the command added no file to dist
B_setup ==
    /\ pc = "b_loop"
    /\ \E r \in {"fail", "ok", "nofile"} :
          LET dist_type == Head(dist_types)
              next == IF Tail(dist_types) = <<>> THEN "b_chdirback"
                      ELSE "b_loop"
              o == OnRun(r # "fail", next, "b_finally")
          IN  /\ Run("python setup.py", <<dist_type>>, r # "fail")
              /\ tmptree' = IF r = "ok"
                            THEN [tmptree EXCEPT
                                    !.files = @ \cup {DistFile(dist_type)}]
                            ELSE tmptree
              /\ dist_types' = Tail(dist_types)
              /\ IF ~o.raised /\ DistFile(dist_type) \notin tmptree'.files
                 THEN Step(Raise("b_finally"))
                 ELSE Step(o)
    /\ UNCHANGED <<invoked, cur, cwd, tmpdirs, dist, about, git, tlocals, date,
                   version_series, version_num, version, build_tag,
                   current_branch, next_version, head0>>

B_chdirBack ==
    /\ pc = "b_chdirback"
    /\ cwd' = curdir
    /\ Do("chdir", <<curdir>>)
    /\ pc' = "b_move"
    /\ UNCHANGED <<exec, raised, tmpdirs, tmptree, dist, about, git, tlocals,
                   blocals, head0>>

B_move ==
    /\ pc = "b_move"
    /\ dist' = [exists |-> TRUE, files |-> tmptree.files]
    /\ tmptree' = [tmptree EXCEPT !.hasDist = FALSE, !.files = {}]
    /\ trace' = trace \o <<Entry("rmtree", <<"dist">>, TRUE, FALSE),
                           Entry("move", <<"dist">>, TRUE, FALSE)>>
    /\ pc' = "b_finally"
    /\ UNCHANGED <<exec, raised, cwd, tmpdirs, about, git, tlocals, blocals,
                   head0>>

\* the mutant of B_finally: the exception is not raised again
B_finally_swallow ==
    /\ pc = "b_finally"
    /\ cwd' = curdir
    /\ tmpdirs' = Rmtree(tmpdirs, tmpdir)
    /\ tmptree' = IF tmpdir \in tmpdirs' THEN tmptree ELSE EmptyTree
    /\ trace' = trace \o <<Entry("chdir", <<curdir>>, TRUE, FALSE),
                           Entry("rmtree", <<tmpdir>>, TRUE, FALSE)>>
    /\ Step([pc |-> "b_devwrite", raised |-> FALSE])
    /\ UNCHANGED <<invoked, cur, dist, about, git, tlocals, blocals, head0>>

B_finally ==
    /\ pc = "b_finally"
    /\ cwd' = curdir
    /\ tmpdirs' = Rmtree(tmpdirs, tmpdir)
    /\ tmptree' = IF tmpdir \in tmpdirs' THEN tmptree ELSE EmptyTree
    /\ trace' = trace \o <<Entry("chdir", <<curdir>>, TRUE, FALSE),
                           Entry("rmtree", <<tmpdir>>, TRUE, FALSE)>>
    /\ Step([pc |-> IF raised THEN "raise" ELSE "b_devwrite",
             raised |-> raised])
    /\ UNCHANGED <<invoked, cur, dist, about, git, tlocals, blocals, head0>>

B_devwrite ==
    /\ pc = "b_devwrite"
    /\ next_version' = NextVersion(version_series, version_num)
    /\ build_tag' = DevelopmentBuild
    /\ about' = [version |-> next_version', build |-> DevelopmentBuild]
    /\ Do("write", next_version')
    /\ pc' = "b_devadd"
    /\ UNCHANGED <<exec, raised, cwd, tmpdirs, tmptree, dist, git, tlocals,
                   date, version_series, version_num, version, current_branch,
                   dist_types, head0>>

B_devadd ==
    /\ pc = "b_devadd"
    /\ \E ok \in BOOLEAN :
          /\ Run("git add", <<>>, ok)
          /\ staged' = IF ok THEN about ELSE staged
          /\ Step(OnRun(ok, "b_devcommit", "raise"))
    /\ UNCHANGED <<invoked, cur, files, tags, head, commits, tlocals, blocals, head0>>

B_devcommit ==
    /\ pc = "b_devcommit"
    /\ \E ok \in BOOLEAN :
          /\ Run("git commit", <<>>, ok)
          /\ commits' = IF ok
                        THEN Append(commits,
                                    [kind |-> "development",
                                     version |-> <<>>,
                                     build |-> <<>>,
                                     about |-> staged])
                        ELSE commits
          /\ Step(OnRun(ok, "idle", "raise"))
    /\ UNCHANGED <<invoked, cur, files, tags, head, staged, tlocals, blocals, head0>>

----------------------------------------------------------------------------
(* release_upload *)

U_twine ==
    /\ pc = "u_twine"
    /\ \E ok \in BOOLEAN :
          /\ Run("twine upload", <<>>, ok)
          /\ Step(OnRun(ok, "idle", "raise"))
    /\ UNCHANGED <<invoked, cur, files, git, tlocals, blocals, head0>>

----------------------------------------------------------------------------

Next ==
    \/ ExecNext
    \/ T_mkdtemp \/ T_export \/ T_chdir \/ T_toxl \/ T_toxe \/ T_finally
    \/ B_series \/ B_tagl \/ B_revparse \/ B_write \/ B_add \/ B_commit
    \/ B_tag \/ B_mkdtemp \/ B_branch \/ B_checkoutTag \/ B_export
    \/ B_checkoutBack \/ B_chdir \/ B_makedirs \/ B_setup \/ B_chdirBack
    \/ B_move \/ B_finally \/ B_devwrite \/ B_devadd \/ B_devcommit
    \/ U_twine

Spec == Init /\ [][Next]_vars

----------------------------------------------------------------------------
(* Properties *)

Idx == 1..Len(trace)

\* a task has ended (invoke is between two tasks, or done)
Ended == pc = "idle" /\ cur # "none"

Failed(e) == e.ext /\ ~e.ok

IsDev(v) == \E i \in 1..Len(v) : v[i] = "d"

\* C1: when release_test or release_build ends, normally or by an abort at
\* any step after mkdtemp, no temporary export directory exists any more
C1_TmpdirRemoved == Ended => tmpdir \notin tmpdirs /\ tmpdirs = {}

C1_Witness ==
    /\ Ended
    /\ cur = "build"
    /\ status = "aborted"
    /\ tmpdir \in TmpNames
    /\ \E i \in Idx : trace[i].op = "python setup.py" /\ Failed(trace[i])

\* C2: after an external command of a task exits with nonzero status no
\* external command is issued any more; all that follows is the chdir back to
\* curdir and the rmtree of tmpdir, and the task ends aborted
C2_AbortOnFailure ==
    \A i \in Idx :
        Failed(trace[i]) =>
            /\ \A j \in (i + 1)..Len(trace) :
                  /\ ~trace[j].ext
                  /\ trace[j].task = trace[i].task
                  /\ \/ j = i + 1 /\ trace[j].op = "chdir"
                                  /\ trace[j].arg = <<curdir>>
                     \/ j = i + 2 /\ trace[j].op = "rmtree"
                                  /\ trace[j].arg = <<tmpdir>>
            /\ pc = "idle" => status = "aborted" /\ queue = <<>>
            /\ pc \in {"idle", "t_finally", "b_finally"}

C2_Witness ==
    /\ Ended
    /\ cur = "build"
    /\ status = "aborted"
    /\ Len(trace) >= 3
    /\ trace[Len(trace) - 2].op = "git checkout-index"
    /\ Failed(trace[Len(trace) - 2])
    /\ trace[Len(trace)].op = "rmtree"

Rank(t) == CASE t = "test" -> 1 [] t = "build" -> 2 [] t = "upload" -> 3
             [] OTHER -> 4

\* the task t ran to its end before the trace entry i was written
Completed(t, i) ==
    /\ \A j \in Idx : trace[j].task = t => j < i /\ ~Failed(trace[j])
    /\ \E j \in 1..(i - 1) :
          /\ trace[j].task = t
          /\ trace[j].op = (CASE t = "test" -> "rmtree"
                              [] t = "build" -> "git commit"
                              [] OTHER -> "twine upload")
          /\ t = "build" => trace[j].arg = <<>>

\* C3: the `all` task runs test, build, upload in this order, each at most
\* once; build starts only after test completed, twine upload is issued only
\* after test and build completed
C3_AllOrder ==
    invoked = "all" =>
        /\ \A i, j \in Idx :
              i < j => Rank(trace[i].task) <= Rank(trace[j].task)
        /\ \A t \in {"test", "build"} :
              Cardinality({i \in Idx : trace[i].task = t
                                       /\ trace[i].op = "mkdtemp"}) <= 1
        /\ Cardinality({i \in Idx : trace[i].op = "twine upload"}) <= 1
        /\ \A i \in Idx :
              /\ trace[i].task = "build" => Completed("test", i)
              /\ trace[i].task = "upload" =>
                    Completed("test", i) /\ Completed("build", i)
        /\ cur = "build" => Completed("test", Len(trace) + 1)
        /\ cur = "upload" => Completed("build", Len(trace) + 1)

C3_Witness ==
    /\ invoked = "all"
    /\ Len(trace) > 0
    /\ trace[Len(trace)].op = "twine upload"
    /\ trace[Len(trace)].ok

\* the counters of the tags of the series that exist
Counters(T, series) ==
    {ToInt(Last(Split(t, "."))) : t \in TagList(T, series)}

Max(S) == CHOOSE x \in S : \A y \in S : y <= x

\* C4: the release counter is 1 + the numerically largest counter of the
\* existing tags of the series (0 when there is none), so the tag of the new
\* version does not exist yet
C4_NextCounter ==
    pc = "b_revparse" =>
        /\ version_num = IF Counters(tags, version_series) = {} THEN 0
                         ELSE 1 + Max(Counters(tags, version_series))
        /\ TagName(version) \notin tags

\* a non-negative decimal integer without leading zeros
IsDecimal(s) ==
    /\ Len(s) > 0
    /\ \A i \in 1..Len(s) : IsDigit(s[i])
    /\ Len(s) > 1 => s[1] # "0"

\* the first checkout of the build task, the checkout of the tag
TagCheckout(i) ==
    /\ trace[i].op = "git checkout"
    /\ \A j \in 1..(i - 1) : trace[j].op # "git checkout"

\* C5: the release version is year.month.counter, three decimal integers
\* without leading zeros, and __about__.py, the release commit, the tag and
\* the checkout of the tag all carry this very string
C5_VersionWellFormed ==
    (cur = "build" /\ version # <<>>) =>
        LET parts == Split(version, ".")
        IN  /\ Len(parts) = 3
            /\ \A i \in 1..3 : IsDecimal(parts[i])
            /\ ToInt(parts[1]) = date[1] % 100
            /\ ToInt(parts[2]) = date[2]
            /\ date[2] \in 1..12
            /\ ToInt(parts[3]) = version_num
            /\ pc \in {"b_add", "b_commit"} => about.version = version
            /\ \A i \in 1..Len(commits) :
                  commits[i].kind = "release" =>
                      /\ commits[i].version = version
                      /\ commits[i].about.version = version
            /\ \A i \in Idx :
                  /\ trace[i].op = "git tag -s" =>
                        trace[i].arg = <<"v">> \o version
                  /\ TagCheckout(i) => trace[i].arg = <<"v">> \o version

C5_Witness ==
    /\ cur = "build"
    /\ date = <<2009, 1>>
    /\ version # <<>>
    /\ Split(version, ".")[1] = <<"9">>
    /\ Split(version, ".")[2] = <<"1">>
    /\ head = TagName(version)
    /\ head \in tags
    /\ Len(commits) = 1

\* C6: when release_test or release_build ends, on every exit path, the
\* working directory is the one the task was in when it made its temporary
\* directory
C6_CwdRestored ==
    (Ended /\ cur \in {"test", "build"} /\ tmpdir # "") =>
        cwd = curdir /\ cwd = ProjectDir

C6_Witness ==
    /\ Ended
    /\ cur = "test"
    /\ status = "aborted"
    /\ \E i \in Idx : trace[i].op = "chdir" /\ trace[i].arg = <<tmpdir>>
    /\ \E i \in Idx : trace[i].op = "tox -e" /\ Failed(trace[i])

\* the steps of release_build the claim C7 orders
StepOf(e) ==
    CASE e.op = "git commit" /\ e.arg # <<>> -> 1
      [] e.op = "git tag -s" -> 2
      [] e.op = "git checkout" /\ e.arg = TagName(version) -> 3
      [] e.op = "git checkout-index" -> 4
      [] e.op = "git checkout" /\ e.arg # TagName(version) -> 5
      [] e.op = "python setup.py" /\ e.arg = <<"sdist">> -> 6
      [] e.op = "python setup.py" /\ e.arg = <<"bdist_wheel">> -> 7
      [] e.op = "move" -> 8
      [] e.op = "write" /\ IsDev(e.arg) -> 9
      [] e.op = "git commit" /\ e.arg = <<>> -> 10
      [] OTHER -> 0

\* C7: release_build commits the release __about__.py, tags, checks the tag
\* out, exports, checks the branch out again, builds sdist and bdist_wheel in
\* the temporary directory and moves dist, each step only after all earlier
\* ones succeeded; the development __about__.py is written and committed only
\* after the move, and an aborted build has committed no development values
C7_BuildOrder ==
    cur = "build" =>
    /\ \A i \in Idx :
          (trace[i].task = "build" /\ StepOf(trace[i]) > 1) =>
              \E j \in 1..(i - 1) :
                  /\ trace[j].task = "build"
                  /\ StepOf(trace[j]) = StepOf(trace[i]) - 1
                  /\ trace[j].ok
                  /\ \A k \in (j + 1)..(i - 1) : ~Failed(trace[k])
    /\ \A i, j \in Idx :
          (i < j /\ trace[i].task = "build" /\ trace[j].task = "build"
             /\ StepOf(trace[j]) > 0) => StepOf(trace[i]) < StepOf(trace[j])
    /\ pc = "b_loop" => cwd = tmpdir /\ tmptree.exported
    /\ pc = "b_move" =>
          tmptree.files = {DistFile("sdist"), DistFile("bdist_wheel")}
    /\ (cur = "build" /\ status = "aborted") =>
          \A i \in 1..Len(commits) :
              /\ commits[i].kind # "development"
              /\ commits[i].about.build # DevelopmentBuild

C7_Witness ==
    /\ Ended
    /\ cur = "build"
    /\ status = "running"
    /\ Len(commits) = 2
    /\ commits[2].about = [version |-> next_version,
                           build |-> DevelopmentBuild]
    /\ dist.files = {DistFile("sdist"), DistFile("bdist_wheel")}

\* the environments release_test ran tox for
RanEnvs == {trace[i].arg[1] : i \in {j \in Idx : trace[j].op = "tox -e"}}

\* C8: release_test runs tox once for every listed environment but
\* "packaging", never for "packaging", runs nothing after the first failing
\* environment, and runs every environment inside the exported temporary
\* directory
C8_ToxEnvs ==
    cur = "test" =>
    /\ \A i \in Idx :
          trace[i].op = "tox -e" =>
              /\ trace[i].arg # <<"packaging">>
              /\ trace[i].arg[1] \in tox_l
              /\ \A j \in Idx : (j # i /\ trace[j].op = "tox -e") =>
                    /\ trace[j].arg # trace[i].arg
                    /\ j > i => trace[i].ok
              /\ \E j \in 1..(i - 1) :
                    /\ trace[j].op = "git checkout-index" /\ trace[j].ok
                    /\ trace[j + 1].op = "chdir"
                    /\ trace[j + 1].arg = <<tmpdir>>
    /\ pc = "t_loop" => cwd = tmpdir /\ tmpdir \in tmpdirs /\ tmptree.exported
    /\ (Ended /\ cur = "test" /\ status = "running") =>
          RanEnvs = tox_l \ {"packaging"}

C8_Witness ==
    /\ Ended
    /\ cur = "test"
    /\ status = "running"
    /\ tox_l = AllEnvs
    /\ RanEnvs = {"py27", "pep8"}

\* C9: the dist directory of the project changes only in the move, which is
\* reached only after sdist and bdist_wheel were both built in the temporary
\* directory; an abort before it leaves dist as it was
C9_DistUntouched ==
    /\ [][pc # "b_move" => dist' = dist]_vars
    /\ [](pc = "b_move" =>
            tmptree.files = {DistFile("sdist"), DistFile("bdist_wheel")})
    /\ []((\A i \in Idx : trace[i].op # "move") => dist \in {NoDist, OldDist})

C9_Witness ==
    /\ Ended
    /\ cur = "build"
    /\ status = "aborted"
    /\ dist = OldDist
    /\ \E i \in Idx : /\ trace[i].op = "python setup.py"
                      /\ trace[i].arg = <<"bdist_wheel">>
                      /\ trace[i].ok

\* C10 as stated: when release_build ends, on every exit path, the branch
\* checked out is the one checked out when the task started
C10_BranchRestored == (Ended /\ cur = "build") => head = head0

\* the export, or the checkout of the original branch, failed
StuckOnTag ==
    \E i \in Idx :
        /\ trace[i].task = "build"
        /\ Failed(trace[i])
        /\ \/ trace[i].op = "git checkout-index"
           \/ trace[i].op = "git checkout" /\ ~TagCheckout(i)

\* C10 amended: when release_build ends the original branch is checked out,
\* unless the export or the checkout of the original branch failed: then the
\* tag of the version stays checked out
C10_BranchRestoredUnlessStuck ==
    (Ended /\ cur = "build") =>
        IF StuckOnTag THEN head = TagName(version) /\ status = "aborted"
        ELSE head = head0

C10_Witness ==
    /\ Ended
    /\ cur = "build"
    /\ head = TagName(version)
    /\ head # head0
    /\ \E i \in Idx : trace[i].op = "git checkout-index" /\ Failed(trace[i])

====
